---- MODULE Spec2Model ----
(***************************************************************************)
(* Model of src/sinks/aws_cloudwatch_logs/request.rs: CloudwatchFuture,   *)
(* the future that appends one batch of log events to one CloudWatch log  *)
(* stream (describe -> create -> put), and hands the next sequence token  *)
(* to a oneshot channel.                                                  *)
(***************************************************************************)
EXTENDS Integers, Sequences, FiniteSets, TLC

(* ---------------------------------------------------------------------- *)
(* Bounds                                                                 *)
(* ---------------------------------------------------------------------- *)
\* number of distinct non-empty token strings
MaxTok == 2
\* longest batch of events handed to new()
MaxBatch == 1

(* ---------------------------------------------------------------------- *)
(* Values                                                                 *)
(* ---------------------------------------------------------------------- *)
\* Option<T>
None == [some |-> FALSE]
Some(v) == [some |-> TRUE, val |-> v]
IsSome(o) == o.some
Option(S) == {None} \cup {Some(v) : v \in S}

TokenNames == <<"T1", "T2", "T3", "T4", "T5">>
\* String values a sequence token can take; "" is a present, empty string
TokStr == {""} \cup {TokenNames[n] : n \in 1..MaxTok}
\* Option<String>
OptTok == Option(TokStr)

\* Vec<InputLogEvent>: events are numbered, a batch is <<1, .., n>>
Batches == {[k \in 1..n |-> k] : n \in 0..MaxBatch}

\* stream names are strings, kept as sequences of characters
TargetName == <<"a">>
SiblingName == <<"a", "b">>
StreamNames == {TargetName, SiblingName}
GroupName == "g"

\* the instances of CloudwatchFuture
Inst == {"f1", "f2"}

Pending == [st |-> "Pending"]
Ready(r) == [st |-> "Ready", res |-> r]
Done == [st |-> "Done"]

Ok(v) == [ok |-> TRUE, val |-> v]
Err(e) == [ok |-> FALSE, err |-> e]

VARIABLES
    cf,      \* Inst -> the CloudwatchFuture, its fields and its pending call
    chan,    \* Inst -> the oneshot channel behind token_tx
    ret,     \* Inst -> what the last poll() returned
    remote,  \* the log group on the remote side: stream name -> stream
    hist,    \* Inst -> history: calls issued, states entered, inputs of new()
    caller   \* the token the submitter of batches holds, and how it has used it

vars == <<cf, chan, ret, remote, hist, caller>>

(* ---------------------------------------------------------------------- *)
(* Client: the three requests                                             *)
(* ---------------------------------------------------------------------- *)
put_logs(client, sequence_token, log_events) ==
    [op |-> "put",
     log_events |-> log_events,
     sequence_token |-> sequence_token,
     log_group_name |-> client.group_name,
     log_stream_name |-> client.stream_name]

describe_stream(client) ==
    [op |-> "describe",
     limit |-> Some(1),
     log_group_name |-> client.group_name,
     log_stream_name_prefix |-> Some(client.stream_name)]

create_log_stream(client) ==
    [op |-> "create",
     log_group_name |-> client.group_name,
     log_stream_name |-> client.stream_name]

(* ---------------------------------------------------------------------- *)
(* The remote side                                                        *)
(* ---------------------------------------------------------------------- *)
DescribeErrs == {"ServiceUnavailable", "ResourceNotFound"}
CreateErrs == {"ServiceUnavailable", "ResourceAlreadyExists"}
PutErrs == {"ServiceUnavailable", "InvalidSequenceToken"}

\* LogStream entries of a DescribeLogStreamsResponse
LogStream(name, tok) == [log_stream_name |-> name, upload_sequence_token |-> tok]

Scripted(r) == [mode |-> "Scripted", res |-> r]
Served == [mode |-> "Served"]
\* served by the group, the response lost on the way back
Lost == [mode |-> "Lost"]

\* an absent stream, and a stream that accepted seq appends
NoStream == [exists |-> FALSE, seq |-> 0]
Stream(n) == [exists |-> TRUE, seq |-> n]
\* the sequence token the stream expects on the next append
TokenOf(s) == IF s.seq = 0 THEN None ELSE Some(TokenNames[s.seq])

IsPrefix(p, s) == Len(p) <= Len(s) /\ SubSeq(s, 1, Len(p)) = p

\* lexicographic order on names, by character code
CharCode(c) == CASE c = "a" -> 1 [] c = "b" -> 2 [] OTHER -> 3
RECURSIVE NameLess(_, _)
NameLess(x, y) ==
    IF x = <<>> THEN y # <<>>
    ELSE IF y = <<>> THEN FALSE
    ELSE IF Head(x) = Head(y) THEN NameLess(Tail(x), Tail(y))
    ELSE CharCode(Head(x)) < CharCode(Head(y))

\* the streams of set S in name order
RECURSIVE SortNames(_)
SortNames(S) ==
    IF S = {} THEN <<>>
    ELSE LET m == CHOOSE x \in S : \A y \in S \ {x} : NameLess(x, y)
         IN <<m>> \o SortNames(S \ {m})

\* the stream lists a describe response can carry: streams of the group, each
\* once, in name order, with any token
StreamLists ==
    UNION {{[k \in 1..Len(SortNames(S)) |->
                LogStream(SortNames(S)[k], f[SortNames(S)[k]])] : f \in [S -> OptTok]}
           : S \in SUBSET StreamNames}

FirstN(s, n) == SubSeq(s, 1, IF Len(s) < n THEN Len(s) ELSE n)

\* every response a call can resolve to, whatever the remote side is
DescribeResponses ==
    {Ok([log_streams |-> l]) : l \in Option(StreamLists)}
        \cup {Err(e) : e \in DescribeErrs}
CreateResponses == {Ok("unit")} \cup {Err(e) : e \in CreateErrs}
PutResponses ==
    {Ok([next_sequence_token |-> t]) : t \in OptTok} \cup {Err(e) : e \in PutErrs}

\* the remote log group serving one request: the response and the group after
ServeDescribe(rem, req) ==
    LET match == {n \in StreamNames :
                     rem[n].exists /\ IsPrefix(req.log_stream_name_prefix.val, n)}
        names == FirstN(SortNames(match), req.limit.val)
    IN [remote |-> rem,
        res |-> Ok([log_streams |->
                      Some([k \in 1..Len(names) |->
                              LogStream(names[k], TokenOf(rem[names[k]]))])])]

ServeCreate(rem, req) ==
    IF rem[req.log_stream_name].exists
    THEN [remote |-> rem, res |-> Err("ResourceAlreadyExists")]
    ELSE [remote |-> [rem EXCEPT ![req.log_stream_name] = Stream(0)],
          res |-> Ok("unit")]

ServePut(rem, req) ==
    LET s == rem[req.log_stream_name] IN
    IF ~s.exists THEN [remote |-> rem, res |-> Err("ResourceNotFound")]
    ELSE IF req.sequence_token # TokenOf(s)
    THEN [remote |-> rem, res |-> Err("InvalidSequenceToken")]
    ELSE IF s.seq >= MaxTok
    THEN [remote |-> rem, res |-> Err("ServiceUnavailable")]
    ELSE [remote |-> [rem EXCEPT ![req.log_stream_name] = Stream(s.seq + 1)],
          res |-> Ok([next_sequence_token |-> TokenOf(Stream(s.seq + 1))])]

Serve(rem, req) ==
    CASE req.op = "describe" -> ServeDescribe(rem, req)
      [] req.op = "create" -> ServeCreate(rem, req)
      [] req.op = "put" -> ServePut(rem, req)

\* how a pending call resolves: by a scripted response, or served by the group
Respond(rem, req, m) ==
    CASE m.mode = "Scripted" -> [remote |-> rem, res |-> m.res]
      [] m.mode = "Served" -> Serve(rem, req)
      [] m.mode = "Lost" ->
            [remote |-> Serve(rem, req).remote, res |-> Err("ServiceUnavailable")]

\* the ways a call can resolve when the remote side is arbitrary
ScriptedModes ==
    [describe |-> {Scripted(r) : r \in DescribeResponses},
     create |-> {Scripted(r) : r \in CreateResponses},
     put |-> {Scripted(r) : r \in PutResponses}]

\* the ways a call can resolve against the log group: served; refused before
\* it was served; served and the response lost
ServedModes ==
    [describe |-> {Served, Scripted(Err("ServiceUnavailable"))},
     create |-> {Served, Scripted(Err("ServiceUnavailable")), Lost},
     put |-> {Served, Scripted(Err("ServiceUnavailable")), Lost}]

(* ---------------------------------------------------------------------- *)
(* The oneshot channel behind token_tx                                    *)
(* ---------------------------------------------------------------------- *)
\* a fresh channel: no value, sender and receiver both alive
Channel == [value |-> None, tx |-> TRUE, rx |-> TRUE]

\* Sender::send(v): consumes the sender; fails when the receiver is gone
send(ch, v) ==
    IF ch.rx
    THEN [ok |-> TRUE, chan |-> [ch EXCEPT !.value = Some(v), !.tx = FALSE]]
    ELSE [ok |-> FALSE, chan |-> [ch EXCEPT !.tx = FALSE]]

\* what the holder of the receiver sees when it polls it
RxReady(v) == [kind |-> "Ready", val |-> v]
RxNotReady == [kind |-> "NotReady"]
RxCanceled == [kind |-> "Canceled"]

\* Receiver::poll: the value once sent; Canceled once the sender is gone
\* without having sent; not ready before
rx_poll(ch) ==
    IF IsSome(ch.value) THEN RxReady(ch.value.val)
    ELSE IF ~ch.tx THEN RxCanceled
    ELSE RxNotReady

(* ---------------------------------------------------------------------- *)
(* CloudwatchFuture                                                       *)
(* ---------------------------------------------------------------------- *)
\* enum State: the variant and the call it holds, a future not yet resolved
State(tag, req) == [tag |-> tag, req |-> req, fut |-> Pending]

Client(stream_name, group_name) ==
    [stream_name |-> stream_name, group_name |-> group_name]

\* new() that takes an empty token string for no token
new_EmptyIsAbsent(stream_name, group_name, events, token) ==
    LET client == Client(stream_name, group_name) IN
    IF IsSome(token) /\ token.val # ""
    THEN [client |-> client,
          events |-> None,
          state |-> State("Put", put_logs(client, Some(token.val), events)),
          token_tx |-> Some("token_tx")]
    ELSE [client |-> client,
          events |-> Some(events),
          state |-> State("DescribeStream", describe_stream(client)),
          token_tx |-> Some("token_tx")]

\* new() that always begins with discovery and forgets the token it was given
new_AlwaysDescribe(stream_name, group_name, events, token) ==
    LET client == Client(stream_name, group_name) IN
    [client |-> client,
     events |-> Some(events),
     state |-> State("DescribeStream", describe_stream(client)),
     token_tx |-> Some("token_tx")]

\* CloudwatchFuture::new
new(stream_name, group_name, events, token) ==
    LET client == Client(stream_name, group_name) IN
    IF IsSome(token)
    THEN [client |-> client,
          events |-> None,
          state |-> State("Put", put_logs(client, Some(token.val), events)),
          token_tx |-> Some("token_tx")]
    ELSE [client |-> client,
          events |-> Some(events),
          state |-> State("DescribeStream", describe_stream(client)),
          token_tx |-> Some("token_tx")]

\* what poll() returns
NotPolled == [kind |-> "NotPolled"]
NotReady == [kind |-> "NotReady"]
OkReady == [kind |-> "Ok"]
Panic(msg) == [kind |-> "Panic", msg |-> msg]
\* CloudwatchError
ErrDescribe(cause) == [kind |-> "Err", variant |-> "Describe", cause |-> cause]
ErrNoStreamsFound == [kind |-> "Err", variant |-> "NoStreamsFound"]
ErrCreateStream(cause) == [kind |-> "Err", variant |-> "CreateStream", cause |-> cause]
ErrPut(cause) == [kind |-> "Err", variant |-> "Put", cause |-> cause]

\* transition_to_put that takes the batch and appends an empty one
transition_to_put_LosesBatch(self, token) ==
    IF ~IsSome(self.events)
    THEN [panic |-> TRUE, msg |-> "Put got called twice, this is a bug!", self |-> self]
    ELSE [panic |-> FALSE,
          self |-> [self EXCEPT
                      !.events = None,
                      !.state = State("Put", put_logs(self.client, token, <<>>))]]

\* transition_to_put that appends a copy of the batch and keeps the batch
transition_to_put_KeepsBatch(self, token) ==
    IF ~IsSome(self.events)
    THEN [panic |-> TRUE, msg |-> "Put got called twice, this is a bug!", self |-> self]
    ELSE [panic |-> FALSE,
          self |-> [self EXCEPT
                      !.state = State("Put", put_logs(self.client, token, self.events.val))]]

\* CloudwatchFuture::transition_to_put: the next self, or the panic of expect()
transition_to_put(self, token) ==
    IF ~IsSome(self.events)
    THEN [panic |-> TRUE, msg |-> "Put got called twice, this is a bug!", self |-> self]
    ELSE [panic |-> FALSE,
          self |-> [self EXCEPT
                      !.events = None,
                      !.state = State("Put", put_logs(self.client, token, self.events.val))]]

\* self.state = State::CreateStream(self.client.create_log_stream())
transition_to_create(self) ==
    [panic |-> FALSE,
     self |-> [self EXCEPT !.state = State("CreateStream", create_log_stream(self.client))]]

\* a call resolves now (m a way to resolve) or stays pending (m = NotYet)
NotYet == [mode |-> "NotYet"]

\* poll() leaves the loop with value r
Return(s, self, r) ==
    [self |-> self, chan |-> s.chan, remote |-> s.remote, hist |-> s.hist, ret |-> r]

RECURSIVE PollLoop(_)

\* the loop goes round with the state t.self just assigned: its call is issued
\* (and may have resolved by the time the loop polls it)
Continue(s, t) ==
    IF t.panic THEN Return(s, t.self, Panic(t.msg))
    ELSE LET req == t.self.state.req
             m == s.orc[req.op]
             r == Respond(s.remote, req, m)
             h == [s.hist EXCEPT !.calls = Append(@, req),
                                 !.trace = Append(@, t.self.state.tag)]
         IN IF m = NotYet
            THEN PollLoop([s EXCEPT !.self = t.self, !.hist = h])
            ELSE PollLoop([s EXCEPT !.self = [t.self EXCEPT !.state.fut = Ready(r.res)],
                                    !.hist = h,
                                    !.remote = r.remote])

\* DescribeStream arm that creates the stream when the one it found has no token
PollDescribeStream_CreatesWhenNoToken(s, self, r) ==
    IF ~r.ok THEN Return(s, self, ErrDescribe(r.err))
    ELSE LET response == r.val IN
         IF ~IsSome(response.log_streams) THEN Return(s, self, ErrNoStreamsFound)
         ELSE LET streams == response.log_streams.val IN
              IF Len(streams) > 0 /\ IsSome(Head(streams).upload_sequence_token)
              THEN Continue(s, transition_to_put(self, Head(streams).upload_sequence_token))
              ELSE Continue(s, transition_to_create(self))

\* DescribeStream arm that drops the token of the stream it found
PollDescribeStream_DropsToken(s, self, r) ==
    IF ~r.ok THEN Return(s, self, ErrDescribe(r.err))
    ELSE LET response == r.val IN
         IF ~IsSome(response.log_streams) THEN Return(s, self, ErrNoStreamsFound)
         ELSE LET streams == response.log_streams.val IN
              IF Len(streams) > 0
              THEN Continue(s, transition_to_put(self, None))
              ELSE Continue(s, transition_to_create(self))

\* DescribeStream arm that appends right away when no stream was found
PollDescribeStream_SkipCreate(s, self, r) ==
    IF ~r.ok THEN Return(s, self, ErrDescribe(r.err))
    ELSE LET response == r.val IN
         IF ~IsSome(response.log_streams) THEN Return(s, self, ErrNoStreamsFound)
         ELSE LET streams == response.log_streams.val IN
              IF Len(streams) > 0
              THEN Continue(s, transition_to_put(self, Head(streams).upload_sequence_token))
              ELSE Continue(s, transition_to_put(self, None))

\* DescribeStream arm that reads an absent stream list as an empty one
PollDescribeStream_NoneAsEmpty(s, self, r) ==
    IF ~r.ok THEN Return(s, self, ErrDescribe(r.err))
    ELSE LET response == r.val
             streams == IF IsSome(response.log_streams)
                        THEN response.log_streams.val ELSE <<>>
         IN IF Len(streams) > 0
            THEN Continue(s, transition_to_put(self, Head(streams).upload_sequence_token))
            ELSE Continue(s, transition_to_create(self))

\* State::DescribeStream(fut), fut ready with r
PollDescribeStream(s, self, r) ==
    IF ~r.ok THEN Return(s, self, ErrDescribe(r.err))
    ELSE LET response == r.val IN
         IF ~IsSome(response.log_streams) THEN Return(s, self, ErrNoStreamsFound)
         ELSE LET streams == response.log_streams.val IN
              IF Len(streams) > 0
              THEN Continue(s, transition_to_put(self, Head(streams).upload_sequence_token))
              ELSE Continue(s, transition_to_create(self))

\* the create calls issued so far
Creates(s) == {k \in DOMAIN s.hist.calls : s.hist.calls[k].op = "create"}

\* CreateStream arm that tries the create a second time when it failed
PollCreateStream_RetriesOnce(s, self, r) ==
    IF ~r.ok
    THEN IF Cardinality(Creates(s)) < 2
         THEN Continue(s, transition_to_create(self))
         ELSE Return(s, self, ErrCreateStream(r.err))
    ELSE Continue(s, transition_to_put(self, None))

\* CreateStream arm that goes through CreateStream a second time
PollCreateStream_ReentersCreate(s, self, r) ==
    IF ~r.ok THEN Return(s, self, ErrCreateStream(r.err))
    ELSE IF Cardinality(Creates(s)) < 2
         THEN Continue(s, transition_to_create(self))
         ELSE Continue(s, transition_to_put(self, None))

\* CreateStream arm that takes "already exists" for a success
PollCreateStream_AbsorbsExists(s, self, r) ==
    IF ~r.ok /\ r.err # "ResourceAlreadyExists"
    THEN Return(s, self, ErrCreateStream(r.err))
    ELSE Continue(s, transition_to_put(self, None))

\* CreateStream arm that tells the sink "no token" when the create failed
PollCreateStream_SignalsOnError(s, self, r) ==
    IF ~r.ok
    THEN LET sent == send(s.chan, None) IN
         Return([s EXCEPT !.chan = sent.chan,
                          !.hist.sends = IF sent.ok THEN @ + 1 ELSE @],
                [self EXCEPT !.token_tx = None], ErrCreateStream(r.err))
    ELSE Continue(s, transition_to_put(self, None))

\* State::CreateStream(fut), fut ready with r
PollCreateStream(s, self, r) ==
    IF ~r.ok THEN Return(s, self, ErrCreateStream(r.err))
    ELSE Continue(s, transition_to_put(self, None))

\* the put calls issued so far
Puts(s) == {k \in DOMAIN s.hist.calls : s.hist.calls[k].op = "put"}

\* Put arm that issues the same append a second time when it failed
PollPut_RetriesOnce(s, self, r) ==
    IF ~r.ok
    THEN IF Cardinality(Puts(s)) < 2
         THEN Continue(s, [panic |-> FALSE,
                           self |-> [self EXCEPT
                                       !.state = State("Put", self.state.req)]])
         ELSE Return(s, self, ErrPut(r.err))
    ELSE LET next_token == r.val.next_sequence_token IN
         IF ~IsSome(self.token_tx)
         THEN Return(s, self, Panic("Put returned twice, this is a bug!"))
         ELSE LET sent == send(s.chan, next_token)
                  taken == [self EXCEPT !.token_tx = None]
                  s1 == [s EXCEPT !.chan = sent.chan,
                                  !.hist.sends = IF sent.ok THEN @ + 1 ELSE @]
              IN IF sent.ok
                 THEN Return(s1, taken, OkReady)
                 ELSE Return(s1, taken, Panic("called Result::unwrap() on an Err value"))

\* Put arm that hands the sink the token it appended with, not the next one
PollPut_SendsOldToken(s, self, r) ==
    IF ~r.ok THEN Return(s, self, ErrPut(r.err))
    ELSE IF ~IsSome(self.token_tx)
         THEN Return(s, self, Panic("Put returned twice, this is a bug!"))
         ELSE LET sent == send(s.chan, self.state.req.sequence_token)
                  taken == [self EXCEPT !.token_tx = None]
                  s1 == [s EXCEPT !.chan = sent.chan,
                                  !.hist.sends = IF sent.ok THEN @ + 1 ELSE @]
              IN IF sent.ok
                 THEN Return(s1, taken, OkReady)
                 ELSE Return(s1, taken, Panic("called Result::unwrap() on an Err value"))

\* Put arm that returns Ok and keeps the next token to itself
PollPut_NoSend(s, self, r) ==
    IF ~r.ok THEN Return(s, self, ErrPut(r.err))
    ELSE Return(s, self, OkReady)

\* Put arm that hands the old token to the sink when the append failed
PollPut_SignalsOnError(s, self, r) ==
    IF ~r.ok
    THEN LET sent == send(s.chan, self.state.req.sequence_token) IN
         Return([s EXCEPT !.chan = sent.chan,
                          !.hist.sends = IF sent.ok THEN @ + 1 ELSE @],
                [self EXCEPT !.token_tx = None], ErrPut(r.err))
    ELSE LET next_token == r.val.next_sequence_token IN
         IF ~IsSome(self.token_tx)
         THEN Return(s, self, Panic("Put returned twice, this is a bug!"))
         ELSE LET sent == send(s.chan, next_token)
                  taken == [self EXCEPT !.token_tx = None]
                  s1 == [s EXCEPT !.chan = sent.chan,
                                  !.hist.sends = IF sent.ok THEN @ + 1 ELSE @]
              IN IF sent.ok
                 THEN Return(s1, taken, OkReady)
                 ELSE Return(s1, taken, Panic("called Result::unwrap() on an Err value"))

\* State::Put(fut), fut ready with r
PollPut(s, self, r) ==
    IF ~r.ok THEN Return(s, self, ErrPut(r.err))
    ELSE LET next_token == r.val.next_sequence_token IN
         IF ~IsSome(self.token_tx)
         THEN Return(s, self, Panic("Put returned twice, this is a bug!"))
         ELSE LET sent == send(s.chan, next_token)
                  taken == [self EXCEPT !.token_tx = None]
                  s1 == [s EXCEPT !.chan = sent.chan,
                                  !.hist.sends = IF sent.ok THEN @ + 1 ELSE @]
              IN IF sent.ok
                 THEN Return(s1, taken, OkReady)
                 ELSE Return(s1, taken, Panic("called Result::unwrap() on an Err value"))

\* Future::poll for CloudwatchFuture: loop { match &mut self.state { .. } }
PollLoop(s) ==
    LET fut == s.self.state.fut IN
    IF fut.st # "Ready" THEN Return(s, s.self, NotReady)
    ELSE LET self == [s.self EXCEPT !.state.fut = Done]
             s1 == [s EXCEPT !.hist.resp = Append(@, fut.res)]
         IN CASE self.state.tag = "DescribeStream" -> PollDescribeStream(s1, self, fut.res)
              [] self.state.tag = "CreateStream" -> PollCreateStream(s1, self, fut.res)
              [] self.state.tag = "Put" -> PollPut(s1, self, fut.res)

(* ---------------------------------------------------------------------- *)
(* State machine                                                          *)
(* ---------------------------------------------------------------------- *)
Unborn == [life |-> "Unborn"]
Live(self) == [life |-> "Live", self |-> self]
Dropped(self) == [life |-> "Dropped", self |-> self]

\* history of an instance: the calls it issued and the responses poll() took
\* from them, the states it entered, the values it sent, the inputs of new()
NoHist ==
    [calls |-> <<>>, resp |-> <<>>, trace |-> <<>>, sends |-> 0,
     token |-> None, events |-> <<>>]
NoGroup == [n \in StreamNames |-> NoStream]
\* the submitter before its first batch: no token known, none delivered; the
\* flags say how it has chosen the token of each instance so far
NoCaller == [last |-> None, delivered |-> FALSE, literal |-> TRUE, fresh |-> TRUE]

Init ==
    /\ cf = [i \in Inst |-> Unborn]
    /\ chan = [i \in Inst |-> Channel]
    /\ ret = [i \in Inst |-> NotPolled]
    /\ remote = NoGroup
    /\ hist = [i \in Inst |-> NoHist]
    /\ caller = NoCaller

\* the caller builds instance i
New(i, stream_name, events, token) ==
    /\ cf[i].life = "Unborn"
    /\ LET self == new(stream_name, GroupName, events, token) IN
       /\ cf' = [cf EXCEPT ![i] = Live(self)]
       /\ hist' = [hist EXCEPT ![i] = [NoHist EXCEPT !.calls = <<self.state.req>>,
                                                      !.trace = <<self.state.tag>>,
                                                      !.token = token,
                                                      !.events = events]]
    /\ UNCHANGED <<chan, ret, remote, caller>>

\* the task is still being driven: poll() has not returned a terminal value
Running(i) == cf[i].life = "Live" /\ ret[i].kind \in {"NotPolled", "NotReady"}

\* the pending call of instance i resolves, in way m
Resolve(i, m) ==
    /\ Running(i)
    /\ cf[i].self.state.fut = Pending
    /\ LET r == Respond(remote, cf[i].self.state.req, m) IN
       /\ cf' = [cf EXCEPT ![i].self.state.fut = Ready(r.res)]
       /\ remote' = r.remote
    /\ UNCHANGED <<chan, ret, hist, caller>>

\* the executor polls instance i; orc tells how the calls issued within this
\* poll resolve
Poll(i, orc) ==
    /\ Running(i)
    /\ LET out == PollLoop([self |-> cf[i].self, chan |-> chan[i], remote |-> remote,
                            hist |-> hist[i], orc |-> orc])
       IN /\ cf' = [cf EXCEPT ![i].self = out.self]
          /\ chan' = [chan EXCEPT ![i] = out.chan]
          /\ remote' = out.remote
          /\ hist' = [hist EXCEPT ![i] = out.hist]
          /\ ret' = [ret EXCEPT ![i] = out.ret]
          /\ UNCHANGED caller

\* a drop that leaks token_tx: the sender outlives the instance
Drop_KeepsSender(i) ==
    /\ cf[i].life = "Live"
    /\ cf' = [cf EXCEPT ![i] = Dropped(cf[i].self)]
    /\ UNCHANGED <<chan, ret, remote, hist, caller>>

\* instance i is dropped, finished or not: its fields go, the sender with them
Drop(i) ==
    /\ cf[i].life = "Live"
    /\ cf' = [cf EXCEPT ![i] = Dropped(cf[i].self)]
    /\ chan' = [chan EXCEPT ![i].tx = FALSE]
    /\ UNCHANGED <<ret, remote, hist, caller>>

\* the holder of the receiving end of instance i's channel drops it
DropReceiver(i) ==
    /\ chan[i].rx
    /\ chan[i].value = None
    /\ chan' = [chan EXCEPT ![i].rx = FALSE]
    /\ UNCHANGED <<cf, ret, remote, hist, caller>>

Oracles(modes) == [create : modes.create \cup {NotYet}, put : modes.put \cup {NotYet}]

\* one instance, any remote side: each call resolves to any response of its type
FreeInst == {"f1"}

NextNew == \E i \in FreeInst, n \in StreamNames, e \in Batches, t \in OptTok : New(i, n, e, t)
NextResolve ==
    \E i \in FreeInst :
        /\ Running(i)
        /\ \E m \in ScriptedModes[cf[i].self.state.req.op] : Resolve(i, m)
NextPoll == \E i \in FreeInst : \E orc \in Oracles(ScriptedModes) : Poll(i, orc)
NextDrop == \E i \in FreeInst : Drop(i)
NextDropReceiver == \E i \in FreeInst : DropReceiver(i)

Next == NextNew \/ NextResolve \/ NextPoll \/ NextDrop \/ NextDropReceiver

Spec == Init /\ [][Next]_vars

(* ---------------------------------------------------------------------- *)
(* One stream, one submitter, one instance in flight at a time            *)
(* ---------------------------------------------------------------------- *)
\* the log groups the first batch can meet
Groups == [StreamNames -> {NoStream, Stream(0), Stream(1)}]

InitSerial ==
    /\ cf = [i \in Inst |-> Unborn]
    /\ chan = [i \in Inst |-> Channel]
    /\ ret = [i \in Inst |-> NotPolled]
    /\ remote \in Groups
    /\ hist = [i \in Inst |-> NoHist]
    /\ caller = NoCaller

\* the tokens the submitter may build the next instance with: the one the last
\* successful instance delivered; or none, when the previous instance delivered
\* none
NextTokens == {caller.last} \cup (IF caller.delivered THEN {} ELSE {None})

\* the submitter builds the next instance for the target stream, with a fresh
\* channel, once no instance is alive
Submit(i, events, token) ==
    /\ \A j \in Inst : cf[j].life # "Live"
    /\ token \in NextTokens
    /\ LET self == new(TargetName, GroupName, events, token) IN
       /\ cf' = [cf EXCEPT ![i] = Live(self)]
       /\ hist' = [hist EXCEPT ![i] = [NoHist EXCEPT !.calls = <<self.state.req>>,
                                                      !.trace = <<self.state.tag>>,
                                                      !.token = token,
                                                      !.events = events]]
    /\ chan' = [chan EXCEPT ![i] = Channel]
    /\ ret' = [ret EXCEPT ![i] = NotPolled]
    /\ caller' = [caller EXCEPT
                    !.literal = @ /\ token = caller.last,
                    !.fresh = @ /\ token = (IF caller.delivered THEN caller.last ELSE None)]
    /\ UNCHANGED remote

\* instance i has returned for good: the submitter reads the sink and lets
\* the instance go
Collect(i) ==
    /\ cf[i].life = "Live"
    /\ ret[i].kind \in {"Ok", "Err", "Panic"}
    /\ cf' = [cf EXCEPT ![i] = Dropped(cf[i].self)]
    /\ chan' = [chan EXCEPT ![i].tx = FALSE]
    /\ caller' = IF IsSome(chan[i].value)
                 THEN [caller EXCEPT !.last = chan[i].value.val, !.delivered = TRUE]
                 ELSE [caller EXCEPT !.delivered = FALSE]
    /\ UNCHANGED <<ret, remote, hist>>

\* instance i is dropped before it returned for good: its sink stays empty
Cancel(i) ==
    /\ Running(i)
    /\ cf' = [cf EXCEPT ![i] = Dropped(cf[i].self)]
    /\ chan' = [chan EXCEPT ![i].tx = FALSE]
    /\ caller' = [caller EXCEPT !.delivered = FALSE]
    /\ UNCHANGED <<ret, remote, hist>>

\* one instance at a time: every instance of the chain takes the same place
SerialInst == {"f1"}

SerialSubmit == \E i \in SerialInst, e \in Batches, t \in OptTok : Submit(i, e, t)
SerialResolve ==
    \E i \in SerialInst :
        /\ Running(i)
        /\ \E m \in ServedModes[cf[i].self.state.req.op] : Resolve(i, m)
SerialPoll == \E i \in SerialInst : \E orc \in Oracles(ServedModes) : Poll(i, orc)
SerialCollect == \E i \in SerialInst : Collect(i)
SerialCancel == \E i \in SerialInst : Cancel(i)
SerialDropReceiver == \E i \in SerialInst : cf[i].life = "Live" /\ DropReceiver(i)

NextSerial ==
    \/ SerialSubmit
    \/ SerialResolve
    \/ SerialPoll
    \/ SerialCollect
    \/ SerialCancel
    \/ SerialDropReceiver

SpecSerial == InitSerial /\ [][NextSerial]_vars

(* ---------------------------------------------------------------------- *)
(* Two instances for the target stream in flight at once                  *)
(* ---------------------------------------------------------------------- *)
\* the group before the race: the target stream missing, new, or appended to
\* once; no other stream
InitRace ==
    /\ cf = [i \in Inst |-> Unborn]
    /\ chan = [i \in Inst |-> Channel]
    /\ ret = [i \in Inst |-> NotPolled]
    /\ remote \in {[NoGroup EXCEPT ![TargetName] = s] : s \in {NoStream, Stream(0), Stream(1)}}
    /\ hist = [i \in Inst |-> NoHist]
    /\ caller = NoCaller

RaceNew == \E i \in Inst, e \in Batches, t \in OptTok : New(i, TargetName, e, t)
RaceResolve ==
    \E i \in Inst :
        /\ Running(i)
        /\ \E m \in ServedModes[cf[i].self.state.req.op] : Resolve(i, m)
RacePoll == \E i \in Inst : \E orc \in Oracles(ServedModes) : Poll(i, orc)

NextRace == RaceNew \/ RaceResolve \/ RacePoll

SpecRace == InitRace /\ [][NextRace]_vars

(* ---------------------------------------------------------------------- *)
(* One instance that is never dropped, driven to the end                  *)
(* ---------------------------------------------------------------------- *)
NextLive == NextNew \/ NextResolve \/ NextPoll \/ NextDropReceiver

\* every pending call resolves in the end and the executor keeps polling
SpecLive ==
    /\ Init
    /\ [][NextLive]_vars
    /\ WF_vars(NextResolve)
    /\ WF_vars(NextPoll)

(* ---------------------------------------------------------------------- *)
(* Properties                                                             *)
(* ---------------------------------------------------------------------- *)
Constructed(i) == cf[i].life # "Unborn"
\* the positions of the put calls among the calls of instance i
PutCalls(i) == {k \in DOMAIN hist[i].calls : hist[i].calls[k].op = "put"}
Ops(i) == [k \in DOMAIN hist[i].calls |-> hist[i].calls[k].op]
\* the k-th call of instance i has resolved and poll() has taken its response
Taken(i, k) == k <= Len(hist[i].resp)
\* the put request new() or transition_to_put must build for instance i
ThePut(i, token) ==
    [op |-> "put", log_events |-> hist[i].events, sequence_token |-> token,
     log_group_name |-> GroupName, log_stream_name |-> cf[i].self.client.stream_name]
Prefix(p, s) == Len(p) <= Len(s) /\ SubSeq(s, 1, Len(p)) = p

\* C1: an instance built with a present token T is in Put from the start and
\* stays there; at every moment of the run, whatever the append came to, the
\* calls it has issued are exactly one put carrying T and the whole batch, and
\* no describe or create.
C1_FastPath ==
    \A i \in Inst :
        (Constructed(i) /\ IsSome(hist[i].token)) =>
            /\ hist[i].trace = <<"Put">>
            /\ cf[i].self.state.tag = "Put"
            /\ hist[i].calls = <<ThePut(i, hist[i].token)>>
            /\ Ops(i) = <<"put">>

C1_Witness ==
    \E i \in Inst :
        /\ Constructed(i)
        /\ hist[i].token = Some("T1")
        /\ hist[i].events # <<>>
        /\ ret[i] = ErrPut("InvalidSequenceToken")

\* the describe of instance i came back with a stream list that is present
DescribedList(i) ==
    /\ Constructed(i)
    /\ ~IsSome(hist[i].token)
    /\ Taken(i, 1)
    /\ hist[i].resp[1].ok
    /\ IsSome(hist[i].resp[1].val.log_streams)
StreamsSeen(i) == hist[i].resp[1].val.log_streams.val

\* C2: built without a token, describe answering with a list whose first
\* entry has last token T1: the states entered are DescribeStream then Put,
\* never CreateStream; the put carries exactly T1 and the batch; a value in the
\* sink is exactly the next token of the put response, and the run that
\* returns Ok has put it there.
C2_ColdStartStreamExists ==
    \A i \in Inst :
        (DescribedList(i) /\ Len(StreamsSeen(i)) > 0) =>
            /\ hist[i].trace = <<"DescribeStream", "Put">>
            /\ Ops(i) = <<"describe", "put">>
            /\ hist[i].calls[2] = ThePut(i, StreamsSeen(i)[1].upload_sequence_token)
            /\ IsSome(chan[i].value) =>
                   /\ Taken(i, 2) /\ hist[i].resp[2].ok
                   /\ chan[i].value.val = hist[i].resp[2].val.next_sequence_token
            /\ ret[i].kind = "Ok" => IsSome(chan[i].value)

C2_Witness ==
    \E i \in Inst :
        /\ DescribedList(i)
        /\ Len(StreamsSeen(i)) = 2
        /\ StreamsSeen(i)[1].upload_sequence_token = Some("T1")
        /\ StreamsSeen(i)[2].upload_sequence_token = None
        /\ hist[i].calls[2].sequence_token = Some("T1")
        /\ ret[i].kind = "Ok"
        /\ chan[i].value = Some(Some("T2"))

\* C3: built without a token, describe answering with a present, empty list:
\* the calls are issued in the order describe, create, put (CreateStream is
\* entered next, Put only once the create succeeded), and the put carries an
\* absent token and the batch.
C3_ColdStartStreamMissing ==
    \A i \in Inst :
        (DescribedList(i) /\ Len(StreamsSeen(i)) = 0) =>
            /\ Len(hist[i].trace) >= 2
            /\ Prefix(hist[i].trace, <<"DescribeStream", "CreateStream", "Put">>)
            /\ Prefix(Ops(i), <<"describe", "create", "put">>)
            /\ Len(hist[i].calls) = 3 <=> (Taken(i, 2) /\ hist[i].resp[2].ok)
            /\ Len(hist[i].calls) = 3 => hist[i].calls[3] = ThePut(i, None)

C3_Witness ==
    \E i \in Inst :
        /\ DescribedList(i)
        /\ Len(StreamsSeen(i)) = 0
        /\ Ops(i) = <<"describe", "create", "put">>
        /\ hist[i].calls[3].sequence_token = None
        /\ hist[i].events # <<>>
        /\ ret[i].kind = "Ok"

\* the describe of instance i came back without a stream list
DescribedNoList(i) ==
    /\ Constructed(i)
    /\ ~IsSome(hist[i].token)
    /\ Taken(i, 1)
    /\ hist[i].resp[1].ok
    /\ ~IsSome(hist[i].resp[1].val.log_streams)

\* C4: a describe that succeeds without a stream list ends the run with
\* NoStreamsFound: no create, no put, nothing sent to the sink; a describe
\* that succeeds with an empty list does not end it so, it enters CreateStream.
C4_AnomalousDescribe ==
    \A i \in Inst :
        /\ DescribedNoList(i) =>
               /\ ret[i] = ErrNoStreamsFound
               /\ Ops(i) = <<"describe">>
               /\ hist[i].trace = <<"DescribeStream">>
               /\ chan[i].value = None
               /\ hist[i].sends = 0
        /\ (DescribedList(i) /\ Len(StreamsSeen(i)) = 0) =>
               /\ ret[i] # ErrNoStreamsFound
               /\ hist[i].trace[2] = "CreateStream"

C4_Witness ==
    \E i \in Inst :
        /\ DescribedNoList(i)
        /\ ret[i] = ErrNoStreamsFound
        /\ cf[i].life = "Dropped"

\* C5: whenever a put fails, on any of the three paths, poll() returns
\* CloudwatchError::Put with the cause of the failure unchanged, and nothing
\* is sent to the sink in that run.
C5_AppendFailure ==
    \A i \in Inst :
        Constructed(i) =>
            \A k \in PutCalls(i) :
                (Taken(i, k) /\ ~hist[i].resp[k].ok) =>
                    /\ ret[i] = ErrPut(hist[i].resp[k].err)
                    /\ chan[i].value = None
                    /\ hist[i].sends = 0
                    /\ Len(hist[i].calls) = k

C5_Witness ==
    \E i \in Inst :
        /\ Constructed(i)
        /\ Ops(i) = <<"describe", "create", "put">>
        /\ Taken(i, 3)
        /\ hist[i].resp[3] = Err("InvalidSequenceToken")
        /\ ret[i] = ErrPut("InvalidSequenceToken")

\* C6: the batch given to new() goes to at most one put call in any run, and
\* every put call carries that batch whole; in a run that returned Ok it went
\* to exactly one, on each of the three paths.
C6_SingleConsumption ==
    \A i \in Inst :
        Constructed(i) =>
            /\ Cardinality(PutCalls(i)) <= 1
            /\ \A k \in PutCalls(i) : hist[i].calls[k].log_events = hist[i].events
            /\ ret[i].kind = "Ok" =>
                   /\ Cardinality(PutCalls(i)) = 1
                   /\ Ops(i) \in {<<"put">>, <<"describe", "put">>,
                                  <<"describe", "create", "put">>}

C6_Witness ==
    \E i \in Inst :
        /\ Constructed(i)
        /\ ret[i].kind = "Ok"
        /\ Ops(i) = <<"describe", "create", "put">>
        /\ hist[i].events # <<>>
        /\ hist[i].calls[3].log_events = hist[i].events

\* the put of instance i has succeeded and poll() has taken its response
PutOk(h) ==
    /\ Len(h.resp) = Len(h.calls)
    /\ h.calls[Len(h.calls)].op = "put"
    /\ h.resp[Len(h.resp)].ok

\* C7: a run that has returned Ok has sent to the sink exactly once, the
\* sender is used up, and no run has ever sent twice; a send happens only in
\* the poll that takes the successful put response and returns Ok, never in
\* an earlier step.
C7_SignaledOnce ==
    /\ [](\A i \in Inst :
            /\ hist[i].sends <= 1
            /\ ret[i].kind = "Ok" =>
                   /\ hist[i].sends = 1
                   /\ IsSome(chan[i].value)
                   /\ ~IsSome(cf[i].self.token_tx)
            /\ ret[i].kind \in {"NotPolled", "NotReady"} =>
                   /\ hist[i].sends = 0
                   /\ chan[i].value = None)
    /\ [][\A i \in Inst :
            hist'[i].sends # hist[i].sends =>
                /\ hist[i].sends = 0
                /\ hist'[i].sends = 1
                /\ ret[i].kind \in {"NotPolled", "NotReady"}
                /\ ret'[i].kind = "Ok"
                /\ Len(hist'[i].resp) > Len(hist[i].resp)
                /\ PutOk(hist'[i])
                /\ chan[i].value = None
                /\ IsSome(chan'[i].value)]_vars

C7_Witness ==
    \E i \in Inst :
        /\ Constructed(i)
        /\ ret[i].kind = "Ok"
        /\ hist[i].sends = 1
        /\ Len(hist[i].calls) = 2
        /\ cf[i].life = "Live"

Failures ==
    {ErrDescribe(c) : c \in DescribeErrs} \cup {ErrNoStreamsFound}
        \cup {ErrCreateStream(c) : c \in CreateErrs} \cup {ErrPut(c) : c \in PutErrs}

\* C8: a run that returned an error, of any of the four kinds, has sent
\* nothing to the sink and still holds the sender; the sink holds a value only
\* when poll() returned Ok; and Ok carries nothing, the token is not in it.
C8_FailureNeverSignals ==
    \A i \in Inst :
        /\ ret[i].kind = "Err" =>
               /\ ret[i] \in Failures
               /\ chan[i].value = None
               /\ hist[i].sends = 0
               /\ IsSome(cf[i].self.token_tx)
        /\ IsSome(chan[i].value) => ret[i] = OkReady
        /\ ret[i].kind = "Ok" => DOMAIN ret[i] = {"kind"}

C8_Witness ==
    \E i \in Inst :
        /\ Constructed(i)
        /\ ret[i] = ErrCreateStream("ResourceAlreadyExists")
        /\ chan[i].rx
        /\ chan[i].value = None

\* C9: built with a present, empty token string, the instance starts in Put
\* and its put carries the empty string; built without a token it starts in
\* DescribeStream; the put that follows a create carries an absent token; the
\* value in the sink is the next token of the put response as it came, absent
\* or empty or not.
C9_AbsentIsNotEmpty ==
    \A i \in Inst :
        Constructed(i) =>
            /\ hist[i].token = Some("") =>
                   /\ hist[i].trace = <<"Put">>
                   /\ hist[i].calls[1].sequence_token = Some("")
            /\ hist[i].token = None =>
                   /\ hist[i].trace[1] = "DescribeStream"
                   /\ hist[i].calls[1].op = "describe"
            /\ \A k \in PutCalls(i) :
                   (k > 1 /\ hist[i].calls[k - 1].op = "create") =>
                       /\ hist[i].calls[k].sequence_token = None
                       /\ hist[i].calls[k].sequence_token # Some("")
            /\ IsSome(chan[i].value) =>
                   /\ PutOk(hist[i])
                   /\ chan[i].value.val =
                          hist[i].resp[Len(hist[i].resp)].val.next_sequence_token

C9_Witness ==
    \E i \in Inst :
        /\ Constructed(i)
        /\ hist[i].token = Some("")
        /\ hist[i].calls[1].sequence_token = Some("")
        /\ chan[i].value = Some(None)

\* the other shade of C9's case: empty string out of a freshly created stream
C9_WitnessEmptyOut ==
    \E i \in Inst :
        /\ Constructed(i)
        /\ Ops(i) = <<"describe", "create", "put">>
        /\ chan[i].value = Some(Some(""))

\* every put in flight against an existing stream carries the token that
\* stream expects, and no call has come back with a token mismatch
PutsCarryExpected ==
    \A i \in Inst :
        Constructed(i) =>
            /\ (cf[i].life = "Live" /\ cf[i].self.state.tag = "Put"
                    /\ cf[i].self.state.fut = Pending
                    /\ remote[cf[i].self.state.req.log_stream_name].exists) =>
                   cf[i].self.state.req.sequence_token =
                       TokenOf(remote[cf[i].self.state.req.log_stream_name])
            /\ cf[i].self.state.fut.st = "Ready" =>
                   cf[i].self.state.fut.res # Err("InvalidSequenceToken")
            /\ \A k \in DOMAIN hist[i].resp :
                   hist[i].resp[k] # Err("InvalidSequenceToken")

\* between instances, a token the last instance delivered is the token the
\* target stream expects
DeliveredIsCurrent ==
    (caller.delivered /\ \A i \in Inst : cf[i].life # "Live") =>
        /\ remote[TargetName].exists
        /\ caller.last = TokenOf(remote[TargetName])

\* C10 (as stated): one instance at a time, each built with the token the
\* last successful instance delivered: every put carries the token the stream
\* expects and none fails on a token mismatch.
C10_AsStated == caller.literal => PutsCarryExpected

\* C10 (amended): one instance at a time, each built with the token the
\* instance before it delivered, and with no token when the instance before it
\* delivered none (it failed, panicked or was dropped): every put carries the
\* token the stream expects, none fails on a token mismatch, and the token the
\* submitter holds after a delivery is the one the stream expects.
C10_TokenChaining == caller.fresh => (PutsCarryExpected /\ DeliveredIsCurrent)

C10_Witness ==
    \E i \in Inst :
        /\ caller.fresh
        /\ Constructed(i)
        /\ hist[i].token = Some("T1")
        /\ hist[i].calls[1].sequence_token = Some("T1")
        /\ ret[i].kind = "Ok"
        /\ chan[i].value = Some(Some("T2"))
        /\ remote[TargetName] = Stream(2)

\* the positions of the calls of kind op among the calls of instance i
CallsOf(i, op) == {k \in DOMAIN hist[i].calls : hist[i].calls[k].op = op}

\* C11: a failed describe ends the run with CloudwatchError::Describe, a
\* failed create with CloudwatchError::CreateStream, each with the call's own
\* error; a run that returned an error has issued no call after the one that
\* failed and issues none later; an instance issues describe, create and put
\* at most once each, three calls at most.
C11_NoLocalRetry ==
    /\ [](\A i \in Inst :
            Constructed(i) =>
                /\ \A k \in CallsOf(i, "describe") :
                       (Taken(i, k) /\ ~hist[i].resp[k].ok) =>
                           /\ ret[i] = ErrDescribe(hist[i].resp[k].err)
                           /\ Len(hist[i].calls) = k
                /\ \A k \in CallsOf(i, "create") :
                       (Taken(i, k) /\ ~hist[i].resp[k].ok) =>
                           /\ ret[i] = ErrCreateStream(hist[i].resp[k].err)
                           /\ Len(hist[i].calls) = k
                /\ ret[i].kind = "Err" => Len(hist[i].calls) = Len(hist[i].resp)
                /\ \A op \in {"describe", "create", "put"} :
                       Cardinality(CallsOf(i, op)) <= 1
                /\ Len(hist[i].calls) <= 3)
    /\ [][\A i \in Inst :
            ret[i].kind = "Err" =>
                /\ ret'[i] = ret[i]
                /\ hist'[i].calls = hist[i].calls]_vars

C11_Witness ==
    \E i \in Inst :
        /\ Constructed(i)
        /\ Ops(i) = <<"describe", "create">>
        /\ Taken(i, 2)
        /\ hist[i].resp[2] = Err("ServiceUnavailable")
        /\ ret[i] = ErrCreateStream("ServiceUnavailable")
        /\ cf[i].life = "Dropped"

\* instance i was dropped before poll() returned a terminal value
Cancelled(i) == cf[i].life = "Dropped" /\ ret[i].kind \in {"NotPolled", "NotReady"}

\* C12: an instance dropped before its terminal result, in whichever state,
\* has sent nothing; the receiver then reads Canceled, which it reads in no
\* state where a value was sent; a delivered absent token is read as the value
\* None; and while the instance is still driven the receiver reads not ready.
C12_Cancellation ==
    \A i \in Inst :
        /\ Cancelled(i) =>
               /\ chan[i].value = None
               /\ hist[i].sends = 0
               /\ rx_poll(chan[i]) = RxCanceled
        /\ IsSome(chan[i].value) => rx_poll(chan[i]) # RxCanceled
        /\ chan[i].value = Some(None) => rx_poll(chan[i]) = RxReady(None)
        /\ Running(i) => rx_poll(chan[i]) = RxNotReady

C12_Witness ==
    \E i \in Inst :
        /\ Cancelled(i)
        /\ cf[i].self.state.tag = "CreateStream"
        /\ ret[i] = NotReady
        /\ chan[i].rx
        /\ rx_poll(chan[i]) = RxCanceled

\* the other half of C12's case: an absent token delivered and read as a value
C12_WitnessAbsentDelivered ==
    \E i \in Inst :
        /\ ret[i].kind = "Ok"
        /\ chan[i].value = Some(None)
        /\ rx_poll(chan[i]) = RxReady(None)

\* C14: whenever the put of an instance has succeeded and poll() has taken
\* the response, poll() has returned Ok, the receiver of the sink being alive
\* or not.
C14_AppendSuccessTerminates ==
    \A i \in Inst :
        (Constructed(i) /\ Len(hist[i].calls) > 0 /\ PutOk(hist[i])) =>
            ret[i] = OkReady

\* the orders in which an instance may have entered its states
Paths ==
    {<<"Put">>, <<"DescribeStream">>, <<"DescribeStream", "Put">>,
     <<"DescribeStream", "CreateStream">>,
     <<"DescribeStream", "CreateStream", "Put">>}

\* C15: the instance is in exactly one of the three states, the last one it
\* entered; the states entered so far are a path along DescribeStream -> Put,
\* DescribeStream -> CreateStream, CreateStream -> Put, no state twice and
\* nothing after Put; CreateStream is entered only after a describe that
\* answered with an empty list; and no step undoes a state already entered.
C15_OneDirectional ==
    /\ [](\A i \in Inst :
            Constructed(i) =>
                /\ cf[i].self.state.tag \in {"DescribeStream", "CreateStream", "Put"}
                /\ hist[i].trace \in Paths
                /\ cf[i].self.state.tag = hist[i].trace[Len(hist[i].trace)]
                /\ (\E k \in DOMAIN hist[i].trace : hist[i].trace[k] = "CreateStream") =>
                       /\ DescribedList(i)
                       /\ StreamsSeen(i) = <<>>)
    /\ [][\A i \in Inst :
            Constructed(i) => Prefix(hist[i].trace, hist'[i].trace)]_vars

C15_Witness ==
    \E i \in Inst :
        /\ Constructed(i)
        /\ hist[i].trace = <<"DescribeStream", "CreateStream", "Put">>
        /\ cf[i].self.state.tag = "Put"
        /\ StreamsSeen(i) = <<>>

\* C16: a describe whose first stream has no last-known token leads to Put
\* with an absent token, without CreateStream and without a create call; and
\* an instance that issued a create call had a describe response whose stream
\* list is present and empty.
C16_TokenlessStreamIsNotCreated ==
    \A i \in Inst :
        /\ (DescribedList(i) /\ Len(StreamsSeen(i)) > 0
                /\ StreamsSeen(i)[1].upload_sequence_token = None) =>
               /\ hist[i].trace = <<"DescribeStream", "Put">>
               /\ Ops(i) = <<"describe", "put">>
               /\ hist[i].calls[2] = ThePut(i, None)
        /\ (Constructed(i) /\ CallsOf(i, "create") # {}) =>
               /\ DescribedList(i)
               /\ StreamsSeen(i) = <<>>

C16_Witness ==
    \E i \in Inst :
        /\ DescribedList(i)
        /\ Len(StreamsSeen(i)) > 0
        /\ StreamsSeen(i)[1].upload_sequence_token = None
        /\ cf[i].self.state.tag = "Put"
        /\ Len(hist[i].calls) = 2
        /\ hist[i].calls[2].sequence_token = None

\* poll() has not yet returned a terminal value for instance i
Unfinished(i) == Constructed(i) /\ ret[i].kind \in {"NotPolled", "NotReady"}

\* C20: until poll() returns a terminal value the batch is held exactly in
\* DescribeStream and CreateStream and is gone exactly in Put, where the put
\* request carries it, and the sender is still held; and poll() never returns
\* the panic of transition_to_put or of the Put arm's expect().
C20_RetainedBatch ==
    \A i \in Inst :
        /\ Unfinished(i) =>
               /\ IsSome(cf[i].self.events) <=>
                      cf[i].self.state.tag \in {"DescribeStream", "CreateStream"}
               /\ ~IsSome(cf[i].self.events) <=> cf[i].self.state.tag = "Put"
               /\ IsSome(cf[i].self.events) => cf[i].self.events.val = hist[i].events
               /\ cf[i].self.state.tag = "Put" =>
                      cf[i].self.state.req.log_events = hist[i].events
               /\ IsSome(cf[i].self.token_tx)
        /\ ret[i] # Panic("Put got called twice, this is a bug!")
        /\ ret[i] # Panic("Put returned twice, this is a bug!")

C20_Witness ==
    \E i \in Inst :
        /\ Unfinished(i)
        /\ hist[i].trace = <<"DescribeStream", "CreateStream", "Put">>
        /\ ret[i] = NotReady
        /\ ~IsSome(cf[i].self.events)
        /\ IsSome(cf[i].self.token_tx)

\* instances i and j were both built for the target stream with the same
\* present token
SameToken(i, j) ==
    /\ i # j
    /\ Constructed(i) /\ Constructed(j)
    /\ IsSome(hist[i].token)
    /\ hist[j].token = hist[i].token
\* poll() of instance i has taken an Ok response to its put
AppendOk(i) == Len(hist[i].calls) > 0 /\ PutOk(hist[i])

\* C13: of two instances built with the same present token for the same
\* stream, at most one has its put succeed; once one has, the stream no
\* longer expects their token, and the other, when its put response is taken,
\* has an error for it, returns Put(that error), the token mismatch when the
\* stream served the put, has issued that one put and nothing else, and has
\* left its sink without a value.
C13_RacingInstances ==
    \A i, j \in Inst :
        (SameToken(i, j) /\ AppendOk(i)) =>
            /\ ~AppendOk(j)
            /\ TokenOf(remote[TargetName]) # hist[j].token
            /\ Ops(j) = <<"put">>
            /\ hist[j].calls[1].sequence_token = hist[i].calls[1].sequence_token
            /\ Taken(j, 1) =>
                   /\ hist[j].resp[1] \in {Err("InvalidSequenceToken"),
                                           Err("ServiceUnavailable")}
                   /\ ret[j] = ErrPut(hist[j].resp[1].err)
            /\ ret[j].kind \in {"NotPolled", "NotReady", "Err"}
            /\ hist[j].sends = 0
            /\ chan[j].value = None
            /\ IsSome(cf[j].self.token_tx)

C13_Witness ==
    \E i, j \in Inst :
        /\ SameToken(i, j)
        /\ AppendOk(i)
        /\ ret[i] = OkReady
        /\ IsSome(chan[i].value)
        /\ ret[j] = ErrPut("InvalidSequenceToken")
        /\ chan[j].value = None

\* C17: an instance whose create call was answered "already exists" has
\* returned CreateStream(that error): it entered DescribeStream and
\* CreateStream and never Put, issued a describe and a create and no put, and
\* sent nothing to its sink.
C17_CreateFailureSurfaces ==
    \A i \in Inst :
        (Constructed(i) /\ Ops(i)[1] = "describe" /\ Len(hist[i].calls) >= 2
            /\ hist[i].calls[2].op = "create" /\ Taken(i, 2)
            /\ hist[i].resp[2] = Err("ResourceAlreadyExists")) =>
            /\ ret[i] = ErrCreateStream("ResourceAlreadyExists")
            /\ hist[i].trace = <<"DescribeStream", "CreateStream">>
            /\ Ops(i) = <<"describe", "create">>
            /\ hist[i].sends = 0
            /\ chan[i].value = None
            /\ IsSome(cf[i].self.token_tx)

\* two token-less instances both saw an empty list; one created the stream,
\* the other's create was rejected
C17_Witness ==
    \E i, j \in Inst :
        /\ i # j
        /\ DescribedList(i) /\ StreamsSeen(i) = <<>>
        /\ DescribedList(j) /\ StreamsSeen(j) = <<>>
        /\ Taken(j, 2) /\ hist[j].resp[2] = Ok("unit")
        /\ Taken(i, 2) /\ hist[i].resp[2] = Err("ResourceAlreadyExists")
        /\ ret[i] = ErrCreateStream("ResourceAlreadyExists")

\* C19: an append that follows a describe carries the token of the stream
\* named exactly as the target: the stream the describe listed first bears
\* the target's name, the put carries its token, and the put goes to a stream
\* that exists (a missing target was created first).
C19_ExactNameToken ==
    \A i \in Inst :
        (DescribedList(i) /\ Len(hist[i].calls) >= 2 /\ hist[i].calls[2].op = "put") =>
            /\ StreamsSeen(i) # <<>>
            /\ StreamsSeen(i)[1].log_stream_name = cf[i].self.client.stream_name
            /\ hist[i].calls[2].sequence_token = StreamsSeen(i)[1].upload_sequence_token

\* the step is a poll of instance i
Polled(i) == Constructed(i) /\ (ret'[i] # ret[i] \/ hist'[i] # hist[i])

\* C18: an instance that is built comes to return Ok or one of the four
\* errors; a poll returns NotReady only with the call of the current state
\* unresolved, and a poll never leaves a resolved call untaken.
C18_Termination ==
    /\ \A i \in FreeInst :
           Constructed(i) ~> (ret[i] = OkReady \/ ret[i] \in Failures)
    /\ [][\A i \in FreeInst :
            Polled(i) =>
                /\ ret'[i] = NotReady => cf'[i].self.state.fut = Pending
                /\ cf'[i].self.state.fut.st # "Ready"]_vars

====
